---- MODULE Spec2Model ----
(***************************************************************************)
(* A model of the MiWiFi integration's topology discovery                  *)
(* (custom_components/miwifi/discovery.py), of its compatibility probe     *)
(* (compatibility.py) and of its registry of unsupported features          *)
(* (unsupported.py, and the add_unsupported service of services.py).       *)
(*                                                                         *)
(* Python dicts are functions whose DOMAIN is the set of keys present, so  *)
(* `"ip" not in leaf` is `"ip" \notin DOMAIN leaf`.  Strings that the code *)
(* measures or strips are sequences of one-character strings, so that      *)
(* len() is Len and str.strip() is computed, not assumed.                  *)
(***************************************************************************)
EXTENDS Integers, Sequences, FiniteSets, TLC

VARIABLES
    pc,        \* where async_discover_devices is: "roots", "rootcheck", "leafs", "done", "raised"
    i,         \* index of the next candidate root address of the for loop (line 70)
    response,  \* the local `response` (line 68, 72)
    devices,   \* the local list `devices` (line 85), shared by the recursion
    stack,     \* the call stack of async_prepare_leafs: one frame per active call
    alive,     \* environment: what the topology query of a check answers, by address
    queried,   \* history: outcome of the topology query of each candidate tried, in order
    probes,    \* history: every call of async_check_ip_address, in order
    sources,   \* history: for each element of devices, the entry that it came from
    hass       \* by Home Assistant instance: hass.data[DOMAIN], the tasks and timers that
               \* async_start_discovery made, and (history) its calls and the timer's ticks

discoveryVars == <<pc, i, response, devices, stack, alive, queried, probes, sources, hass>>

\* CompatibilityChecker (compatibility.py).
VARIABLES
    ppc,          \* where the checker is: "idle", "mode", "model", "registry", "feature",
                  \* "call", "sleep", "returned", "raised"
    max_retries,  \* self.max_retries
    silent_mode,  \* self.silent_mode
    mode,         \* self.mode
    raw_mode,     \* the local of run (lines 44-48): what client.mode() returned
    model,        \* self.model
    info,         \* the local of run (line 70): what client.init_info() returned
    result,       \* self.result: the one dict made by __init__ and returned by every run
    combined_unsupported,  \* the local of run (line 78)
    consults,     \* history: the calls of get_combined_unsupported by the run in progress
    fidx,         \* position of the for loop of run in `features`; 0 outside a run
    attempt,      \* the loop variable of _safe_call
    safe_ret,     \* what a direct call of _safe_call returned
    tried,        \* history: what func did at each attempt of the _safe_call in progress
                  \* (for a direct call: of the call that just returned)
    pauses,       \* history: the sleeps of that _safe_call
    calls,        \* history: network calls made for each feature by the run in progress
    warned,       \* history: the features the run in progress logged a warning for
    failures,     \* history: the failed attempts of func in the runs so far
    runs          \* history: the results as they were when each run returned

probeVars == <<ppc, max_retries, silent_mode, mode, raw_mode, model, info, result,
               combined_unsupported, consults,
               fidx, attempt, safe_ret, tried, pauses, calls, warned, failures, runs>>

\* The registry of unsupported features (unsupported.py, services.py).
VARIABLES
    UNSUPPORTED,  \* the built-in mapping, a module-level dict of lists
    user_file,    \* the file unsupported_user.py
    adds,         \* the calls of the add_unsupported service in progress
    lookup        \* the last call of the registry's readers and what it returned

registryVars == <<UNSUPPORTED, user_file, adds, lookup>>

vars == <<discoveryVars, probeVars, registryVars>>

(***************************************************************************)
(* Bounds of the model.                                                    *)
(***************************************************************************)
\* The largest number of child entries (over all levels) of a topology response.
MaxNodes == 3

(***************************************************************************)
(* Strings.                                                                *)
(***************************************************************************)
RECURSIVE LStrip(_)
LStrip(s) ==
    IF s = <<>> THEN s
    ELSE IF Head(s) = " " THEN LStrip(Tail(s)) ELSE s

RECURSIVE RStrip(_)
RStrip(s) ==
    IF s = <<>> THEN s
    ELSE IF s[Len(s)] = " " THEN RStrip(SubSeq(s, 1, Len(s) - 1)) ELSE s

\* str.strip(): leading and trailing whitespace removed.
Strip(s) == RStrip(LStrip(s))

AddrA == <<"a">>
AddrB == <<"b">>
Hw == <<"h">>

(***************************************************************************)
(* The candidate root addresses, in the order of the list of line 70.      *)
(***************************************************************************)
Candidates == <<"CLIENT_ADDRESS", "CLIENT_ADDRESS_IP", "CLIENT_ADDRESS_DEFAULT">>

(***************************************************************************)
(* Exceptions.  A topology query either answers or raises; the exception   *)
(* classes matter only through the except clauses that catch them.         *)
(***************************************************************************)
\* What LuciClient.topo_graph can do: answer, or raise one of three kinds.
Outcomes == {"ok", "LuciConnectionError", "LuciError", "Exception"}

\* What one call of a client method can do: return a value or raise.
Returns == {"dict", "True", "False", "None", "list"}
Raises == Outcomes \ {"ok"}
FuncOutcomes == Returns \cup Raises

\* isinstance(exc, cls) for the except clauses: LuciConnectionError is a LuciError.
IsInstance(exc, cls) ==
    \/ exc = cls
    \/ exc = "LuciConnectionError" /\ cls = "LuciError"
    \/ exc # "ok" /\ cls = "Exception"

(***************************************************************************)
(* Topology responses.  A response is the dict that topo_graph returns; a  *)
(* child entry is a dict with "ip", "hardware" and "leafs", any of which   *)
(* may be absent.                                                          *)
(***************************************************************************)
\* The dict {}.
EmptyDict == [x \in {} |-> x]

\* The child entries the model draws from, before they are given children:
\* two valid ones and one for each way of being invalid.
LeafKinds ==
    { [ip |-> AddrA, hardware |-> Hw],
      [ip |-> AddrB, hardware |-> Hw, leafs |-> <<>>],
      [hardware |-> Hw],
      [ip |-> <<>>, hardware |-> Hw],
      [ip |-> AddrA],
      [ip |-> AddrB, hardware |-> <<>>] }

\* The entry `kind` with the list ls under its key "leafs".
WithLeafs(kind, ls) ==
    [x \in DOMAIN kind \cup {"leafs"} |-> IF x = "leafs" THEN ls ELSE kind[x]]

RECURSIVE Forests(_, _), Trees(_, _)
\* The lists of entries built from K that hold exactly n entries over all levels.
Forests(K, n) ==
    IF n = 0 THEN {<<>>}
    ELSE UNION { { <<t>> \o f : t \in Trees(K, k), f \in Forests(K, n - k) } : k \in 1..n }

\* The entries built from K that hold, with their descendants, exactly k entries.
Trees(K, k) ==
    IF k = 1 THEN K
    ELSE { WithLeafs(kind, f) : kind \in K, f \in Forests(K, k - 1) }

ForestsUpTo(K, n) == UNION { Forests(K, m) : m \in 0..n }

\* Responses with a non-empty self-address and at most n child entries: with
\* and without the key "leafs".
GoodResponses(K, n) ==
    { [graph |-> [ip |-> AddrA, leafs |-> f]] : f \in ForestsUpTo(K, n) }
        \cup { [graph |-> [ip |-> AddrA]] }

\* Responses that the validation of lines 78-82 rejects.
BadResponses(K) ==
    { EmptyDict, [code |-> 0] }
        \cup { [graph |-> [leafs |-> f]] : f \in ForestsUpTo(K, 1) }
        \cup { [graph |-> [ip |-> <<>>, leafs |-> f]] : f \in ForestsUpTo(K, 1) }

\* The responses a candidate may give when `failed` candidates failed before it.
\* MaxNodes bounds the size of a run's input: the candidates that fail plus the
\* child entries of the response.
Responses(failed) ==
    GoodResponses(LeafKinds, IF failed < MaxNodes THEN MaxNodes - failed ELSE 0)
        \cup BadResponses(LeafKinds)

\* Responses, tabulated once for each number of candidates that can fail first.
ResponsesAfter == [failed \in 0..(Len(Candidates) - 1) |-> Responses(failed)]

\* The addresses a liveness check can be asked about.
Addrs == {AddrA, AddrB}

(***************************************************************************)
(* The pure parts of the code.                                             *)
(***************************************************************************)
\* Lines 78-82, negated: the response carries a non-empty graph.ip.
WellFormed(resp) ==
    /\ "graph" \in DOMAIN resp
    /\ "ip" \in DOMAIN resp["graph"]
    /\ Len(resp["graph"]["ip"]) # 0

\* IsValidLeaf without the two tests of "hardware".
IsValidLeafIpOnly(leaf) ==
    /\ "ip" \in DOMAIN leaf
    /\ Len(leaf["ip"]) # 0

\* Lines 149-155, negated: the entry is not skipped by the `continue`.
IsValidLeaf(leaf) ==
    /\ "ip" \in DOMAIN leaf
    /\ Len(leaf["ip"]) # 0
    /\ "hardware" \in DOMAIN leaf
    /\ Len(leaf["hardware"]) # 0

\* Line 160: whether the walk recurses into the entry.
HasLeafs(leaf) == "leafs" \in DOMAIN leaf /\ Len(leaf["leafs"]) > 0

RECURSIVE PreOrder(_)
\* The entries of ls and of their descendants, parents first.
PreOrder(ls) ==
    IF ls = <<>> THEN <<>>
    ELSE <<Head(ls)>>
             \o (IF "leafs" \in DOMAIN Head(ls) THEN PreOrder(Head(ls)["leafs"]) ELSE <<>>)
             \o PreOrder(Tail(ls))

\* ChildLeafs that follows the address instead of the nesting: the children
\* of the first node of the response that carries the address of `leaf`.
ChildLeafsByAddress(leaf) ==
    LET graph == response["graph"]
        same == SelectSeq(PreOrder(graph["leafs"]),
                          LAMBDA e : "ip" \in DOMAIN e /\ "leafs" \in DOMAIN e
                                         /\ Strip(e["ip"]) = Strip(leaf["ip"]))
    IN IF Strip(graph["ip"]) = Strip(leaf["ip"]) THEN graph["leafs"] ELSE Head(same)["leafs"]

\* Line 161: the list the recursive call is given.
ChildLeafs(leaf) == leaf["leafs"]

\* RootLoopCatches for a clause `except LuciConnectionError` in place of line 75.
RootLoopCatchesConnectionOnly(exc) == IsInstance(exc, "LuciConnectionError")

\* Lines 75-76: the exceptions of the topology query that the loop swallows.
RootLoopCatches(exc) == IsInstance(exc, "LuciError")

\* AfterFailure for a `break` in place of the `continue` of line 76.
AfterFailureBreak(idx) == [i |-> idx, pc |-> "done"]

\* Lines 70, 76 and 78-83: after candidate idx failed the loop takes the next
\* candidate; after the last one `response` is still {} and [] is returned.
AfterFailure(idx) ==
    IF idx < Len(Candidates)
    THEN [i |-> idx + 1, pc |-> "roots"]
    ELSE [i |-> idx, pc |-> "done"]

\* AsyncCheckIpAddress with one clause `except LuciError: return False`.
AsyncCheckIpAddressStrict(outcome) ==
    IF outcome = "ok" THEN "true"
    ELSE IF IsInstance(outcome, "LuciError") THEN "false"
    ELSE "raise"

\* async_check_ip_address on a topology query that ends as `outcome`:
\* "true", "false", or "raise" when the exception leaves the function.
AsyncCheckIpAddress(outcome) ==
    IF outcome = "ok" THEN "true"
    ELSE IF IsInstance(outcome, "LuciConnectionError") THEN "false"
    ELSE IF IsInstance(outcome, "LuciError") THEN "true"
    ELSE "raise"

\* AppendIfAlive without the `if`: the address is appended whatever the check says.
AppendAlways(devs, addr, ret) == Append(devs, addr)

\* Lines 87-88 and 157-158: the list after the check of addr returned ret.
AppendIfAlive(devs, addr, ret) == IF ret = "true" THEN Append(devs, addr) ELSE devs

(***************************************************************************)
(* The call stack of async_prepare_leafs.  A frame is one active call: its *)
(* argument `leafs`, the index k of the entry the for loop takes next, and *)
(* (history) the path of the entry whose children the call walks.          *)
(***************************************************************************)
Frame(ls, path) == [leafs |-> ls, k |-> 1, path |-> path]

Top(stk) == stk[Len(stk)]

RECURSIVE Unwind(_)
\* Lines 148 and 163: a call whose for loop is exhausted returns to its caller.
Unwind(stk) ==
    IF stk = <<>> THEN stk
    ELSE IF Top(stk).k > Len(Top(stk).leafs) THEN Unwind(SubSeq(stk, 1, Len(stk) - 1))
    ELSE stk

\* The for loop of the top frame moves to its next entry.
Advance(stk) == [stk EXCEPT ![Len(stk)].k = @ + 1]

\* Descend that puts the children's call behind all active calls, so that
\* the children are walked after the siblings.
DescendAfterSiblings(stk, leaf, path) ==
    IF HasLeafs(leaf) THEN <<Frame(ChildLeafs(leaf), path)>> \o stk ELSE stk

\* Descend for a walk that recurses only below entries whose check passed.
DescendIfAlive(stk, leaf, path) ==
    IF HasLeafs(leaf) /\ AsyncCheckIpAddress(alive[Strip(leaf["ip"])]) = "true"
    THEN Append(stk, Frame(ChildLeafs(leaf), path))
    ELSE stk

\* The stack after the entry `leaf` at `path` was handled: the loop moves on and,
\* when the entry has children, the recursive call starts (lines 160-161).
Descend(stk, leaf, path) ==
    IF HasLeafs(leaf) THEN Append(stk, Frame(ChildLeafs(leaf), path)) ELSE stk

\* pc once the stack is stk: the outermost call returned, or the walk goes on.
AfterWalk(stk) == IF stk = <<>> THEN "done" ELSE "leafs"

(***************************************************************************)
(* The other components at rest: no checker runs, the registry is as       *)
(* shipped and no override file exists.                                    *)
(***************************************************************************)
\* raw_mode before client.mode() has returned.
NoRawMode == [type |-> "unbound"]

\* info before client.init_info() has returned.
NoInfo == [type |-> "unbound"]

\* The default of the max_retries parameter of CompatibilityChecker.__init__.
DefaultMaxRetries == 5

\* CompatibilityChecker.__init__ (lines 14-21), and the histories empty.
Constructed(retries) ==
    /\ max_retries = retries
    /\ silent_mode = FALSE
    /\ mode = "None"
    /\ raw_mode = NoRawMode
    /\ model = "None"
    /\ info = NoInfo
    /\ result = EmptyDict
    /\ combined_unsupported = EmptyDict
    /\ consults = 0
    /\ fidx = 0
    /\ safe_ret = "None"
    /\ tried = <<>>
    /\ pauses = 0
    /\ calls = EmptyDict
    /\ warned = {}
    /\ failures = 0
    /\ runs = <<>>

ProbeIdle ==
    /\ ppc = "idle"
    /\ Constructed(DefaultMaxRetries)
    /\ attempt = 0

\* The dict UNSUPPORTED of unsupported.py (lines 61-97), as shipped.  A model
\* is written by the name of its member of the enum Model.
BuiltinUnsupported ==
    [ new_status |-> << "R1D", "R2D", "R1CM", "R1CL", "R3P", "R3D", "R3L", "R3A", "R3",
                        "R3G", "R4", "R4A", "R4AC", "R4C", "R4CM", "D01", "RN06" >>,
      wifi_config |-> << "CR8806" >>,
      mac_filter |-> << "RM1800" >>,
      mac_filter_info |-> << >>,
      qos_info |-> << >>,
      vpn_control |-> << >> ]

\* No file unsupported_user.py.
NoFile == [state |-> "absent", imports |-> "none", isdict |-> FALSE, data |-> EmptyDict]

\* The processes that call the add_unsupported service.
Callers == {1, 2}

\* A caller that is not inside the service.
NotCalling == [at |-> "idle", last |-> "none"]

NoLookup == [op |-> "none"]

RegistryIdle ==
    /\ UNSUPPORTED = BuiltinUnsupported
    /\ user_file = NoFile
    /\ adds = [p \in Callers |-> NotCalling]
    /\ lookup = NoLookup

(***************************************************************************)
(* async_start_discovery (discovery.py, lines 31-58), per Home Assistant   *)
(* instance.                                                               *)
(***************************************************************************)
Instances == {1, 2}

\* hass.data[DOMAIN] without the key DISCOVERY, no task and no timer.
NotStarted == [discovery |-> FALSE, tasks |-> 0, timers |-> 0, calls |-> 0, ticks |-> 0]

NoStart == [h \in Instances |-> NotStarted]

(***************************************************************************)
(* async_discover_devices.  Each action is the code from one await of a    *)
(* topology query to the next.                                             *)
(***************************************************************************)
\* The state at the call; the liveness of every address is the environment's.
Init ==
    /\ pc = "roots"
    /\ i = 1
    /\ response = EmptyDict
    /\ devices = <<>>
    /\ stack = <<>>
    /\ alive \in [Addrs -> Outcomes]
    /\ queried = <<>>
    /\ probes = <<>>
    /\ sources = <<>>
    /\ hass = NoStart
    /\ ProbeIdle
    /\ RegistryIdle

\* Lines 70-76: the topology query of candidate i raises an exception that the
\* loop swallows; the loop goes to the next candidate and, after the last one,
\* the empty `response` fails the validation and [] is returned (lines 78-83).
CandidateFails ==
    /\ pc = "roots"
    /\ \E exc \in Outcomes \ {"ok"} :
        /\ RootLoopCatches(exc)
        /\ queried' = Append(queried, exc)
    /\ i' = AfterFailure(i).i
    /\ pc' = AfterFailure(i).pc
    /\ UNCHANGED <<response, devices, stack, alive, probes, sources, hass>>
    /\ UNCHANGED <<probeVars, registryVars>>

\* Line 72: the topology query of candidate i raises an exception that no
\* except clause of the loop catches: it leaves async_discover_devices.
CandidateRaises ==
    /\ pc = "roots"
    /\ \E exc \in Outcomes \ {"ok"} :
        /\ ~RootLoopCatches(exc)
        /\ queried' = Append(queried, exc)
    /\ pc' = "raised"
    /\ UNCHANGED <<i, response, devices, stack, alive, probes, sources, hass>>
    /\ UNCHANGED <<probeVars, registryVars>>

\* Lines 72-83: candidate i answers with r, which ends the loop (break); a
\* response without a non-empty graph.ip makes the function return [].
CandidateAnswers(R) ==
    /\ pc = "roots"
    /\ \E r \in R :
        /\ response' = r
        /\ pc' = IF WellFormed(r) THEN "rootcheck" ELSE "done"
    /\ queried' = Append(queried, "ok")
    /\ UNCHANGED <<i, devices, stack, alive, probes, sources, hass>>
    /\ UNCHANGED <<probeVars, registryVars>>

\* The record of one call of async_check_ip_address.
Probe(path, addr) ==
    [path |-> path, addr |-> addr, outcome |-> alive[addr],
     ret |-> AsyncCheckIpAddress(alive[addr])]

\* Lines 85-91: the check of the root's own address, its append, and the call
\* of async_prepare_leafs on graph.leafs when the key is there.
RootChecked ==
    /\ pc = "rootcheck"
    /\ LET graph == response["graph"]
           p == Probe(<<>>, Strip(graph["ip"]))
           stk == IF "leafs" \in DOMAIN graph
                  THEN Unwind(<<Frame(graph["leafs"], <<>>)>>)
                  ELSE <<>>
       IN /\ p.ret # "raise"
          /\ probes' = Append(probes, p)
          /\ devices' = AppendIfAlive(<<>>, p.addr, p.ret)
          /\ sources' = IF devices' = <<>> THEN <<>> ELSE <<p.path>>
          /\ stack' = stk
          /\ pc' = AfterWalk(stk)
    /\ UNCHANGED <<i, response, alive, queried, hass>>
    /\ UNCHANGED <<probeVars, registryVars>>

\* Line 87: the check of the root's address lets an exception through.
RootCheckRaises ==
    /\ pc = "rootcheck"
    /\ LET p == Probe(<<>>, Strip(response["graph"]["ip"]))
       IN /\ p.ret = "raise"
          /\ probes' = Append(probes, p)
    /\ pc' = "raised"
    /\ UNCHANGED <<i, response, devices, stack, alive, queried, sources, hass>>
    /\ UNCHANGED <<probeVars, registryVars>>

\* The entry the for loop of the innermost call is at, and its path.
CurLeaf == Top(stack).leafs[Top(stack).k]
CurPath == Append(Top(stack).path, Top(stack).k)

\* Lines 148-155: the entry lacks a non-empty ip or hardware: continue.
LeafSkipped ==
    /\ pc = "leafs"
    /\ ~IsValidLeaf(CurLeaf)
    /\ stack' = Unwind(Advance(stack))
    /\ pc' = AfterWalk(stack')
    /\ UNCHANGED <<i, response, devices, alive, queried, probes, sources, hass>>
    /\ UNCHANGED <<probeVars, registryVars>>

\* Lines 157-161: the entry is checked, appended when alive, and its children
\* are walked by the recursive call.
LeafVisited ==
    /\ pc = "leafs"
    /\ IsValidLeaf(CurLeaf)
    /\ LET p == Probe(CurPath, Strip(CurLeaf["ip"]))
       IN /\ p.ret # "raise"
          /\ probes' = Append(probes, p)
          /\ devices' = AppendIfAlive(devices, p.addr, p.ret)
          /\ sources' = IF devices' = devices THEN sources ELSE Append(sources, p.path)
    /\ stack' = Unwind(Descend(Advance(stack), CurLeaf, CurPath))
    /\ pc' = AfterWalk(stack')
    /\ UNCHANGED <<i, response, alive, queried, hass>>
    /\ UNCHANGED <<probeVars, registryVars>>

\* Line 157: the check of the entry's address lets an exception through.
LeafCheckRaises ==
    /\ pc = "leafs"
    /\ IsValidLeaf(CurLeaf)
    /\ LET p == Probe(CurPath, Strip(CurLeaf["ip"]))
       IN /\ p.ret = "raise"
          /\ probes' = Append(probes, p)
    /\ pc' = "raised"
    /\ UNCHANGED <<i, response, devices, stack, alive, queried, sources, hass>>
    /\ UNCHANGED <<probeVars, registryVars>>

Next ==
    \/ CandidateFails
    \/ CandidateRaises
    \/ CandidateAnswers(ResponsesAfter[Len(queried)])
    \/ RootChecked
    \/ RootCheckRaises
    \/ LeafSkipped
    \/ LeafVisited
    \/ LeafCheckRaises

Spec == Init /\ [][Next]_vars

(***************************************************************************)
(* Vocabulary of the properties.  These definitions restate what the       *)
(* specification says of a response; they do not use the operators above.  *)
(***************************************************************************)
Range(f) == { f[x] : x \in DOMAIN f }

Last(q) == q[Len(q)]

Finished == pc \in {"done", "raised"}

\* A child entry with a non-empty address and a non-empty hardware model.
QualifiesAsChild(e) ==
    /\ {"ip", "hardware"} \subseteq DOMAIN e
    /\ e["ip"] # <<>>
    /\ e["hardware"] # <<>>

\* The children list of a descriptor or entry; none when the key is absent.
ChildrenOf(e) == IF "leafs" \in DOMAIN e THEN e["leafs"] ELSE <<>>

RECURSIVE EntryIn(_, _)
\* The entry at `path` (a non-empty sequence of positions) below the list ls.
EntryIn(ls, path) ==
    IF Len(path) = 1 THEN ls[path[1]]
    ELSE EntryIn(ChildrenOf(ls[path[1]]), Tail(path))

\* The child entry of the walked response at `path`.
EntryAt(path) == EntryIn(ChildrenOf(response["graph"]), path)

RECURSIVE ReachablePaths(_, _)
\* The paths of the qualifying entries of ls that are reached through
\* qualifying entries only; `prefix` is the path of the owner of ls.
ReachablePaths(ls, prefix) ==
    UNION { IF QualifiesAsChild(ls[k])
            THEN {Append(prefix, k)}
                     \cup ReachablePaths(ChildrenOf(ls[k]), Append(prefix, k))
            ELSE {} : k \in 1..Len(ls) }

\* All paths of the walked response, qualifying or not.
RECURSIVE AllPaths(_, _)
AllPaths(ls, prefix) ==
    UNION { {Append(prefix, k)} \cup AllPaths(ChildrenOf(ls[k]), Append(prefix, k))
            : k \in 1..Len(ls) }

ResponsePaths == AllPaths(ChildrenOf(response["graph"]), <<>>)

\* The address of the node at `path`; <<>> is the root itself.
AddressAt(path) ==
    IF path = <<>> THEN Strip(response["graph"]["ip"]) ELSE Strip(EntryAt(path)["ip"])

\* The root and the qualifying entries reachable from it.
CandidateNodes == {<<>>} \cup ReachablePaths(ChildrenOf(response["graph"]), <<>>)

\* The address answers a liveness check: reachable, with or without an error reply.
Answers(addr) == alive[addr] \in {"ok", "LuciError"}

\* The descriptor carries a non-empty self-address.
HasSelfAddress(resp) ==
    /\ "graph" \in DOMAIN resp
    /\ "ip" \in DOMAIN resp["graph"]
    /\ resp["graph"]["ip"] # <<>>

\* The walk of a well-formed response has begun (and perhaps ended).
Walked == pc \in {"rootcheck", "leafs", "done", "raised"} /\ HasSelfAddress(response)

\* discover returned the list `devices` after walking a well-formed response.
Returned == pc = "done" /\ Walked

(***************************************************************************)
(* C1: for every acyclic response and every assignment of liveness         *)
(* outcomes, the set of addresses discover returns is exactly the set of   *)
(* addresses that answer the liveness check among the root's own address   *)
(* and the qualifying child entries reachable through qualifying entries.  *)
(***************************************************************************)
C1_ReturnsLiveReachable ==
    Returned =>
        Range(devices) = { AddressAt(p) : p \in { q \in CandidateNodes : Answers(AddressAt(q)) } }

\* A run that returns the address of a grandchild and leaves the root out,
\* on a response that also holds an entry that does not qualify.
C1_Witness ==
    /\ Returned
    /\ Range(devices) = {AddrB}
    /\ ~Answers(AddrA)
    /\ \E p \in CandidateNodes : Len(p) = 2 /\ AddressAt(p) = AddrB
    /\ \E p \in ResponsePaths : p \notin CandidateNodes

(***************************************************************************)
(* C2: the list discover returns never holds the same address twice.       *)
(***************************************************************************)
C2_NoDuplicateAddress ==
    pc = "done" =>
        \A m, n \in 1..Len(devices) : m # n => devices[m] # devices[n]

(***************************************************************************)
(* C3: discover terminates (returns a list or raises) for every response,  *)
(* including one in which a descendant repeats the address of an ancestor. *)
(* Every step strictly decreases Rank in the lexicographic order of pairs  *)
(* of naturals, so no run is infinite; and a run stops only when discover  *)
(* has returned or raised.                                                 *)
(***************************************************************************)
RECURSIVE NodeCount(_)
\* The number of entries of the list ls, descendants included.
NodeCount(ls) ==
    IF ls = <<>> THEN 0
    ELSE 1 + NodeCount(ChildrenOf(Head(ls))) + NodeCount(Tail(ls))

RECURSIVE Pending(_)
\* The number of entries the calls on the stack stk have still to take.
Pending(stk) ==
    IF stk = <<>> THEN 0
    ELSE NodeCount(SubSeq(Top(stk).leafs, Top(stk).k, Len(Top(stk).leafs)))
             + Pending(SubSeq(stk, 1, Len(stk) - 1))

Rank ==
    CASE pc = "roots" -> <<3, Len(Candidates) + 1 - i>>
      [] pc = "rootcheck" -> <<2, 0>>
      [] pc = "leafs" -> <<1, Pending(stack)>>
      [] OTHER -> <<0, 0>>

C3_Terminates ==
    /\ [][\/ Rank'[1] < Rank[1]
          \/ Rank'[1] = Rank[1] /\ Rank'[2] < Rank[2] /\ Rank'[2] >= 0]_vars
    /\ [](~Finished => ENABLED Next)

\* Some entry of the walked response carries the address of one of its ancestors.
RepeatsAncestor ==
    \E p \in ResponsePaths :
        /\ "ip" \in DOMAIN EntryAt(p)
        /\ \E n \in 0..(Len(p) - 1) :
            /\ n > 0 => "ip" \in DOMAIN EntryAt(SubSeq(p, 1, n))
            /\ AddressAt(SubSeq(p, 1, n)) = AddressAt(p)

\* discover returned after walking, two levels deep, a response in which a
\* grandchild that has children itself repeats the address of its parent.
C3_Witness ==
    /\ Returned
    /\ \E p \in CandidateNodes :
        /\ Len(p) = 2
        /\ AddressAt(p) = AddressAt(SubSeq(p, 1, 1))
        /\ ChildrenOf(EntryAt(p)) # <<>>
    /\ RepeatsAncestor
    /\ Len(probes) = 4

(***************************************************************************)
(* C4: a child entry whose address or hardware field is missing or empty   *)
(* is never liveness-probed and never contributes its address to the       *)
(* result, even when that address would answer.                            *)
(***************************************************************************)
C4_InvalidChildNeverUsed ==
    Walked =>
        /\ \A m \in 1..Len(probes) :
            probes[m].path # <<>> => QualifiesAsChild(EntryAt(probes[m].path))
        /\ Len(sources) = Len(devices)
        /\ \A n \in 1..Len(sources) :
            /\ devices[n] = AddressAt(sources[n])
            /\ sources[n] # <<>> => QualifiesAsChild(EntryAt(sources[n]))

\* discover returned without the address b, which answers and is carried
\* only by an entry without hardware; no check was made of it.
C4_Witness ==
    /\ Returned
    /\ alive[AddrB] = "ok"
    /\ \E p \in ResponsePaths :
        /\ ~QualifiesAsChild(EntryAt(p))
        /\ "ip" \in DOMAIN EntryAt(p)
        /\ EntryAt(p)["ip"] = AddrB
        /\ Len(p) = 1
    /\ AddrB \notin Range(devices)
    /\ \A m \in 1..Len(probes) : probes[m].addr # AddrB
    /\ Len(devices) = 2

(***************************************************************************)
(* C5: every address in the list was the subject of a liveness check that  *)
(* returned true during the same run, made for the very entry it came from.*)
(***************************************************************************)
C5_OnlyCheckedAddresses ==
    /\ Len(sources) = Len(devices)
    /\ \A n \in 1..Len(devices) :
        \E m \in 1..Len(probes) :
            /\ probes[m].path = sources[n]
            /\ probes[m].addr = devices[n]
            /\ probes[m].ret = "true"
            /\ probes[m].outcome # "LuciConnectionError"

\* discover returned after three checks: the root's failed, the two others passed.
C5_Witness ==
    /\ Returned
    /\ Len(probes) = 3
    /\ probes[1].ret = "false"
    /\ Len(devices) = 2

(***************************************************************************)
(* C6: checkAlive returns false when the topology query fails with a       *)
(* connection-level error, true when it succeeds or fails with a           *)
(* protocol-level error, and lets any other exception propagate.           *)
(***************************************************************************)
C6_CheckAliveOutcome ==
    \A m \in 1..Len(probes) :
        LET p == probes[m]
        IN /\ p.outcome = alive[p.addr]
           /\ p.outcome = "LuciConnectionError" => p.ret = "false"
           /\ p.outcome \in {"ok", "LuciError"} => p.ret = "true"
           /\ p.outcome = "Exception" => p.ret = "raise" /\ pc = "raised" /\ m = Len(probes)

\* A run in which one check returned true on a protocol error and the next
\* check let an exception through.
C6_Witness ==
    /\ pc = "raised"
    /\ Len(probes) = 2
    /\ probes[1].outcome = "LuciError" /\ probes[1].ret = "true"
    /\ probes[2].outcome = "Exception" /\ probes[2].ret = "raise"

(***************************************************************************)
(* C7: discover queries the candidate roots in their order and walks the   *)
(* descriptor of the first candidate whose response carries a non-empty    *)
(* self-address; candidates after that winner are never queried, and a     *)
(* candidate that answers with a descriptor lacking a self-address does    *)
(* not win: the candidates after it are still tried.                       *)
(***************************************************************************)
C7_FirstWellFormedWins ==
    /\ Len(queried) <= Len(Candidates)
    /\ pc = "roots" => Len(queried) = i - 1
    /\ Walked => Last(queried) = "ok"
    /\ (/\ queried # <<>>
        /\ Last(queried) = "ok"
        /\ ~HasSelfAddress(response)
        /\ Len(queried) < Len(Candidates)) => pc = "roots"

(***************************************************************************)
(* C8, as stated: when the liveness check of the root's reported address   *)
(* fails with a connection error and a further candidate root remains,     *)
(* discover goes on to try the next candidate.                             *)
(***************************************************************************)
RootConnFailed ==
    /\ probes # <<>>
    /\ probes[1].path = <<>>
    /\ probes[1].outcome = "LuciConnectionError"

QueryFailures == {"LuciConnectionError", "LuciError"}

C8_RootCheckFailureTriesNext ==
    (pc = "done" /\ RootConnFailed) =>
        \A n \in 1..Len(queried) :
            (queried[n] = "ok" /\ n < Len(Candidates)) => Len(queried) > n

(***************************************************************************)
(* C8, amended: when the topology query of a candidate root fails with a   *)
(* connection or protocol error and a further candidate remains, discover  *)
(* goes on to try the next candidate; a liveness check of the root's       *)
(* reported address that fails with a connection error only leaves the     *)
(* root's address out of the result, and no further candidate is tried.    *)
(***************************************************************************)
C8_QueryFailureTriesNext ==
    /\ \A n \in 1..Len(queried) :
        (queried[n] \in QueryFailures /\ n < Len(Candidates)) =>
            \/ Len(queried) > n
            \/ pc = "roots" /\ i = n + 1
    /\ RootConnFailed =>
        /\ Last(queried) = "ok"
        /\ pc # "roots"
        /\ <<>> \notin Range(sources)

\* The first candidate failed, the second answered, the check of the root's
\* address failed, and discover returned a child without trying the third.
C8_Witness ==
    /\ Returned
    /\ RootConnFailed
    /\ queried = <<"LuciConnectionError", "ok">>
    /\ devices = <<AddrB>>

(***************************************************************************)
(* C9: when the topology query fails with a connection-level or            *)
(* protocol-level error for every candidate root, discover returns the     *)
(* empty list and raises nothing.                                          *)
(***************************************************************************)
C9_AllCandidatesFail ==
    (queried # <<>> /\ \A n \in 1..Len(queried) : queried[n] \in QueryFailures) =>
        /\ pc \in {"roots", "done"}
        /\ pc = "done" <=> Len(queried) = Len(Candidates)
        /\ devices = <<>>
        /\ probes = <<>>

\* All three candidates failed, with both kinds of error, and discover returned.
C9_Witness ==
    /\ pc = "done"
    /\ queried = <<"LuciConnectionError", "LuciError", "LuciConnectionError">>
    /\ devices = <<>>

(***************************************************************************)
(* C10: in the returned list the root's address, when included, is first,  *)
(* and every included node comes before the nodes included from its own    *)
(* subtree: the list is in depth-first pre-order of the descriptor.        *)
(***************************************************************************)
\* p comes before q in pre-order: p is an ancestor of q, or p branches off to
\* the left of q.
PathLess(p, q) ==
    \E j \in 1..Len(q) :
        /\ j <= Len(p) + 1
        /\ \A t \in 1..(j - 1) : p[t] = q[t]
        /\ \/ j = Len(p) + 1
           \/ j <= Len(p) /\ p[j] < q[j]

C10_PreOrder ==
    Walked =>
        /\ Len(sources) = Len(devices)
        /\ \A n \in 1..Len(sources) : devices[n] = AddressAt(sources[n])
        /\ \A m, n \in 1..Len(sources) : m < n => PathLess(sources[m], sources[n])

\* discover returned the root, its first child, that child's child and then
\* the root's second child.
C10_Witness ==
    /\ Returned
    /\ sources = << <<>>, <<1>>, <<1, 1>>, <<2>> >>

(***************************************************************************)
(* CompatibilityChecker._safe_call (compatibility.py, lines 23-37).  An    *)
(* action is the code from one await to the next: the await of func() and  *)
(* the await of asyncio.sleep(1).  Logging is taken not to fail.           *)
(***************************************************************************)
\* The most retries a checker is constructed with.
MaxRetries == 3

\* Succeeds for a test of truthiness in place of line 28.
SucceedsTruthy(out) == out \in {"dict", "True", "list"}

\* Line 28: isinstance(resp, dict) or resp is True.
Succeeds(out) == out = "dict" \/ out = "True"

\* SafeCallCatches without the last except clause.
SafeCallCatchesLuciOnly(exc) ==
    \/ IsInstance(exc, "LuciConnectionError")
    \/ IsInstance(exc, "LuciError")

\* Lines 30-35: the three except clauses; each one only logs.
SafeCallCatches(exc) ==
    \/ IsInstance(exc, "LuciConnectionError")
    \/ IsInstance(exc, "LuciError")
    \/ IsInstance(exc, "Exception")

\* LoopContinues for a loop that gives up one attempt early.
LoopContinuesShort(n, retries) == n + 1 < retries

\* Line 25: range(1, max_retries + 1) has a value after n.
LoopContinues(n, retries) == n < retries

\* Lines 81-93: the keys of `features`, in the order the for loop of line 95
\* takes them (a dict keeps insertion order).
Features ==
    << "mac_filter", "mac_filter_info", "per_device_qos", "rom_update",
       "flash_permission", "led_control", "guest_wifi", "wifi_config",
       "device_list", "topo_graph", "portforward" >>

\* The feature the loop of run is at.
Feature == Features[fidx]

\* d[k] = v of a Python dict.
Put(d, k, v) == [x \in DOMAIN d \cup {k} |-> IF x = k THEN v ELSE d[x]]

\* The failed attempts of func in the runs of one behaviour of the model.
MaxFailures == 2

\* Warns for a warning that does not look at silent_mode.
WarnsAlways(supported, silent) == supported = "False"

\* Line 106: if supported is False and not self.silent_mode.
Warns(supported, silent) == supported = "False" /\ ~silent

\* _safe_call returns `supported`.  Called directly (fidx = 0) the value goes
\* to the caller; in run, lines 103-111 record it, warn, and the loop goes on.
Resume(supported) ==
    IF fidx = 0
    THEN /\ safe_ret' = supported
         /\ ppc' = "returned"
         /\ UNCHANGED <<result, warned, fidx>>
    ELSE /\ result' = Put(result, Feature, supported)
         /\ warned' = IF Warns(supported, silent_mode)
                       THEN warned \cup {Feature} ELSE warned
         /\ fidx' = fidx + 1
         /\ ppc' = "feature"
         /\ UNCHANGED safe_ret

\* Lines 26-35: one attempt.  func() is awaited; a dict or True returns True,
\* anything else, and any exception the handlers catch, goes on to the sleep.
SafeCallAttempt(outs) ==
    /\ ppc = "call"
    /\ \E out \in outs :
         /\ IF fidx = 0 THEN TRUE ELSE Succeeds(out) \/ failures < MaxFailures
         /\ tried' = Append(tried, out)
         /\ calls' = IF fidx = 0 THEN calls
                      ELSE Put(calls, Feature,
                               IF Feature \in DOMAIN calls THEN calls[Feature] + 1 ELSE 1)
         /\ failures' = IF fidx = 0 \/ Succeeds(out) THEN failures ELSE failures + 1
         /\ IF out \in Returns /\ Succeeds(out)
            THEN Resume("True")
            ELSE /\ ppc' = IF out \in Raises /\ ~SafeCallCatches(out) THEN "raised" ELSE "sleep"
                 /\ UNCHANGED <<result, warned, fidx, safe_ret>>
    /\ UNCHANGED <<attempt, pauses>>
    /\ UNCHANGED <<max_retries, silent_mode, mode, raw_mode, model, info, combined_unsupported, consults, runs>>
    /\ UNCHANGED <<discoveryVars, registryVars>>

\* Lines 36-37: the sleep that ends a failed attempt, then the next attempt, or
\* `return False` when the range is used up.
SafeCallSleep ==
    /\ ppc = "sleep"
    /\ pauses' = pauses + 1
    /\ IF LoopContinues(attempt, max_retries)
       THEN /\ attempt' = attempt + 1
            /\ ppc' = "call"
            /\ UNCHANGED <<result, warned, fidx, safe_ret>>
       ELSE /\ Resume("False")
            /\ UNCHANGED attempt
    /\ UNCHANGED <<tried, calls, failures>>
    /\ UNCHANGED <<max_retries, silent_mode, mode, raw_mode, model, info, combined_unsupported, consults, runs>>
    /\ UNCHANGED <<discoveryVars, registryVars>>

\* Discovery at rest, for the specifications of the other components.
DiscoveryIdle ==
    /\ pc = "done"
    /\ i = 1
    /\ response = EmptyDict
    /\ devices = <<>>
    /\ stack = <<>>
    /\ alive = [a \in Addrs |-> "ok"]
    /\ queried = <<>>
    /\ probes = <<>>
    /\ sources = <<>>
    /\ hass = NoStart

\* A direct call of _safe_call on a checker made with any max_retries >= 1,
\* at line 27 of the first iteration.
InitSafeCall ==
    /\ DiscoveryIdle
    /\ RegistryIdle
    /\ \E retries \in 1..MaxRetries : Constructed(retries)
    /\ ppc = "call"
    /\ attempt = 1

NextSafeCall ==
    \/ SafeCallAttempt(FuncOutcomes)
    \/ SafeCallSleep

SpecSafeCall == InitSafeCall /\ [][NextSafeCall]_vars

(***************************************************************************)
(* Vocabulary of the properties of safeCall: success is a structured       *)
(* response or the literal true; anything else is a failure.               *)
(***************************************************************************)
IsSuccess(out) == out \in {"dict", "True"}

FailedAttempts == { n \in 1..Len(tried) : ~IsSuccess(tried[n]) }

SafeCallReturned == ppc = "returned" /\ fidx = 0

\* C11: a direct safeCall whose operation failed its first k attempts
\* (k < maxRetries) and then succeeded has returned true after exactly k+1
\* attempts and at least k pauses; one whose operation failed every time has
\* returned false after exactly maxRetries attempts.
C11_SafeCallCounts ==
    SafeCallReturned =>
        /\ safe_ret \in {"True", "False"}
        /\ \A k \in 0..(max_retries - 1) :
              (/\ Len(tried) > k
               /\ FailedAttempts \cap 1..(k + 1) = 1..k)
              => /\ safe_ret = "True"
                 /\ Len(tried) = k + 1
                 /\ pauses >= k
        /\ FailedAttempts = 1..Len(tried)
              => /\ safe_ret = "False"
                 /\ Len(tried) = max_retries

\* Two failures, then a success, with three attempts allowed.
C11_Witness ==
    /\ SafeCallReturned
    /\ max_retries = 3
    /\ Len(tried) = 3
    /\ FailedAttempts = {1, 2}
    /\ safe_ret = "True"

\* C12: in a direct safeCall a connection error, a protocol error and any
\* other exception are handled alike: none propagates, each uses up one
\* attempt and is followed by the pause, and then by the next attempt
\* exactly when attempts remain.
C12_ExceptionsAlike ==
    /\ ppc # "raised"
    /\ \A n \in 1..Len(tried) :
          tried[n] \in Raises =>
              /\ n <= attempt
              /\ (ppc = "sleep" /\ n = Len(tried)) => attempt = n /\ pauses = n - 1
              /\ (ppc = "call" \/ n < Len(tried)) => pauses >= n
              /\ n < Len(tried) => n < max_retries
              /\ (SafeCallReturned /\ n = Len(tried)) =>
                     n = max_retries /\ safe_ret = "False"

\* All three kinds of exception in one call, each followed by another attempt
\* but the last.
C12_Witness ==
    /\ SafeCallReturned
    /\ tried = <<"LuciConnectionError", "LuciError", "Exception">>
    /\ safe_ret = "False"

(***************************************************************************)
(* The registry of unsupported features: get_combined_unsupported and      *)
(* is_feature_unsupported (unsupported.py, lines 11-42).                   *)
(***************************************************************************)
\* The features and models the callers of the model ask about and the
\* override files of the model mention: wifi_config has a built-in list,
\* led_control has none; CR8806 is in a built-in list, RA67 in none.
SomeFeatures == {"wifi_config", "led_control"}
SomeModels == {"CR8806", "RA67"}

\* The longest list in an override file of the initial state.
MaxListed == 2

Lists == UNION { [1..n -> SomeModels] : n \in 0..MaxListed }

\* The dicts an override file can assign to UNSUPPORTED.
UserDicts == UNION { [F -> Lists] : F \in SUBSET SomeFeatures }

\* The override files of the initial state: none; one that raises when
\* executed; one whose UNSUPPORTED is not a dict; one whose UNSUPPORTED is a
\* dict (an empty one also stands for a module without the attribute, which
\* getattr turns into {}).  A file names the enum by an absolute import or, as
\* the files that the add_unsupported service writes, by `from .enum import`.
UserFiles ==
    { NoFile,
      [state |-> "broken", imports |-> "none", isdict |-> FALSE, data |-> EmptyDict] }
    \cup { [state |-> "module", imports |-> imp, isdict |-> FALSE, data |-> EmptyDict] :
              imp \in {"absolute", "relative"} }
    \cup { [state |-> "module", imports |-> imp, isdict |-> TRUE, data |-> d] :
              imp \in {"absolute", "relative"}, d \in UserDicts }

\* The module names the two loaders give to spec_from_file_location.
RegistryModuleName == "unsupported_user"
ServiceModuleName == "custom_components.miwifi.unsupported_user"

\* A module name with a parent package, against which `from .enum import`
\* resolves.
HasParentPackage(name) == name = "custom_components.miwifi.unsupported_user"

\* spec_from_file_location(name, file), module_from_spec, exec_module and
\* getattr(module, "UNSUPPORTED", {}): the exception raised, or "ok" and the
\* value.  A relative import in a module without a parent package raises
\* ImportError.
LoadUserModule(file, name) ==
    IF file.state = "broken"
    THEN [exc |-> "SyntaxError", isdict |-> FALSE, data |-> EmptyDict]
    ELSE IF file.imports = "relative" /\ ~HasParentPackage(name)
    THEN [exc |-> "ImportError", isdict |-> FALSE, data |-> EmptyDict]
    ELSE [exc |-> "ok", isdict |-> file.isdict, data |-> file.data]

\* x in list.
In(x, list) == \E n \in 1..Len(list) : list[n] = x

\* Lines 28-30: each model of `value` is appended unless already there.
RECURSIVE AppendMissing(_, _)
AppendMissing(list, value) ==
    IF value = <<>> THEN list
    ELSE AppendMissing(IF In(Head(value), list) THEN list ELSE Append(list, Head(value)),
                       Tail(value))

\* Lines 25-30: the loop over user_data.items().
Merged(combined, user_data) ==
    [k \in DOMAIN combined \cup DOMAIN user_data |->
        AppendMissing(IF k \in DOMAIN combined THEN combined[k] ELSE <<>>,
                      IF k \in DOMAIN user_data THEN user_data[k] ELSE <<>>)]

\* CombinedCatches for a load outside any try.
CombinedCatchesNothing(exc) == FALSE

\* Line 31: except Exception.
CombinedCatches(exc) == exc # "ok" /\ IsInstance(exc, "Exception")

\* get_combined_unsupported (lines 11-36): the exception it ends in ("ok" for
\* none) and the mapping it returns.
GetCombinedUnsupported(builtin, file) ==
    IF file.state = "absent"
    THEN [exc |-> "ok", ret |-> builtin]
    ELSE LET loaded == LoadUserModule(file, RegistryModuleName)
         IN  IF loaded.exc # "ok"
             THEN [exc |-> IF CombinedCatches(loaded.exc) THEN "ok" ELSE loaded.exc,
                   ret |-> builtin]
             ELSE [exc |-> "ok",
                   ret |-> IF loaded.isdict THEN Merged(builtin, loaded.data) ELSE builtin]

\* BuiltinAfter for a `combined` that shares its lists with UNSUPPORTED.
BuiltinAfterShared(builtin, combined) == [k \in DOMAIN builtin |-> combined[k]]

\* Line 15: `combined` is made of copies of the lists of UNSUPPORTED, so the
\* appends of line 30 do not reach UNSUPPORTED.
BuiltinAfter(builtin, combined) == builtin

\* dict.get(feature, []).
Get(d, k) == IF k \in DOMAIN d THEN d[k] ELSE <<>>

\* is_feature_unsupported (lines 39-42), given what line 41 got.
IsFeatureUnsupported(unsupported, feature, m) == In(m, Get(unsupported, feature))

\* A call of get_combined_unsupported, as every action that makes one sees it.
Combined == GetCombinedUnsupported(UNSUPPORTED, user_file)

\* combined(): a direct call of get_combined_unsupported.
CombinedCalled ==
    /\ lookup' = [op |-> "combined", exc |-> Combined.exc, ret |-> Combined.ret,
                  file |-> user_file]
    /\ UNSUPPORTED' = BuiltinAfter(UNSUPPORTED, Combined.ret)
    /\ UNCHANGED <<user_file, adds>>
    /\ UNCHANGED <<discoveryVars, probeVars>>

\* isUnsupported(feature, model): a call of is_feature_unsupported.
IsFeatureUnsupportedCalled ==
    /\ \E feature \in SomeFeatures, m \in SomeModels :
         lookup' = [op |-> "is_feature_unsupported", exc |-> Combined.exc,
                    feature |-> feature, model |-> m, file |-> user_file,
                    ret |-> IsFeatureUnsupported(Combined.ret, feature, m)]
    /\ UNSUPPORTED' = BuiltinAfter(UNSUPPORTED, Combined.ret)
    /\ UNCHANGED <<user_file, adds>>
    /\ UNCHANGED <<discoveryVars, probeVars>>

\* A probe run, as the registry sees it: line 78 of compatibility.py is its
\* only access.
ProbeConsults ==
    /\ ppc = "idle"
    /\ Combined.exc = "ok"
    /\ combined_unsupported' = Combined.ret
    /\ UNSUPPORTED' = BuiltinAfter(UNSUPPORTED, Combined.ret)
    /\ UNCHANGED <<user_file, adds, lookup>>
    /\ UNCHANGED <<ppc, max_retries, silent_mode, mode, raw_mode, model, info, result, consults,
                   fidx, attempt,
                   safe_ret, tried, pauses, calls, warned, failures, runs>>
    /\ UNCHANGED discoveryVars

(***************************************************************************)
(* The add_unsupported service (services.py, lines 644-748).  It awaits    *)
(* the translations between reading the override file and writing it.      *)
(***************************************************************************)
\* The names of the members of the enum Model that the model uses: those of
\* the built-in lists and one that is in none.
ModelNames == UNION { Range(BuiltinUnsupported[k]) : k \in DOMAIN BuiltinUnsupported }
                  \cup {"RA67"}

\* The values of service.data the callers send; "" is a missing one.
AddFeatures == SomeFeatures \cup {""}
AddModelNames == {"cr8806", "RA67", "bogus", ""}

\* str.upper on those.
Upper(name) ==
    CASE name = "cr8806" -> "CR8806"
      [] name = "RA67" -> "RA67"
      [] name = "bogus" -> "BOGUS"
      [] OTHER -> name

\* Lines 648-664: the two checks of the arguments.
AddRejects(feature, model_name) ==
    IF feature = "" \/ model_name = "" THEN "missing"
    ELSE IF Upper(model_name) \notin ModelNames THEN "invalid"
    ELSE "no"

\* Lines 666-682: user_data as the service reads it.
ReadUserData(file) ==
    IF file.state = "absent" THEN EmptyDict
    ELSE LET loaded == LoadUserModule(file, ServiceModuleName)
         IN  IF loaded.exc = "ok" /\ loaded.isdict THEN loaded.data ELSE EmptyDict

\* AlreadyExists for a test that looks at the override file only.
AlreadyExistsInFile(user_data, builtin, feature, m) ==
    feature \in DOMAIN user_data /\ In(m, user_data[feature])

\* Lines 686-689.
AlreadyExists(user_data, builtin, feature, m) ==
    \/ feature \in DOMAIN user_data /\ In(m, user_data[feature])
    \/ feature \in DOMAIN builtin /\ In(m, builtin[feature])

\* Lines 698-700: user_data[feature].append(model_enum).
Added(user_data, feature, m) ==
    Put(user_data, feature, Append(Get(user_data, feature), m))

\* Lines 702-713: the file the service writes.
Written(user_data) ==
    [state |-> "module", imports |-> "relative", isdict |-> TRUE, data |-> user_data]

\* The call of caller p is over: what it did, for which arguments, and how it
\* ended.  Every path through async_call_service ends in a return, the ones
\* of lines 653, 664 and 727 and the end of the function.
Completed(did, feature, m) ==
    [at |-> "idle", last |-> did, feature |-> feature, model |-> m, outcome |-> "returned"]

\* Lines 645-656 and 658-664: a call with a missing or an invalid argument logs
\* a warning and returns.
AddUnsupportedRejects(p) ==
    /\ adds[p].at = "idle"
    /\ \E feature \in AddFeatures, model_name \in AddModelNames :
         /\ AddRejects(feature, model_name) # "no"
         /\ adds' = [adds EXCEPT ![p] =
                        Completed(AddRejects(feature, model_name), feature, model_name)]
    /\ UNCHANGED <<UNSUPPORTED, user_file, lookup>>
    /\ UNCHANGED <<discoveryVars, probeVars>>

\* Lines 645-695: a call with valid arguments reads the file, computes
\* already_exists and awaits the translations.
AddUnsupportedReads(p) ==
    /\ adds[p].at = "idle"
    /\ \E feature \in AddFeatures, model_name \in AddModelNames :
         /\ AddRejects(feature, model_name) = "no"
         /\ adds' = [adds EXCEPT ![p] =
                [at |-> "translations",
                 feature |-> feature,
                 model_enum |-> Upper(model_name),
                 user_data |-> ReadUserData(user_file),
                 already_exists |-> AlreadyExists(ReadUserData(user_file), UNSUPPORTED,
                                                  feature, Upper(model_name))]]
    /\ UNCHANGED <<UNSUPPORTED, user_file, lookup>>
    /\ UNCHANGED <<discoveryVars, probeVars>>

\* Lines 697-726 and 741-748: the pair is new; it is appended to user_data and
\* the file is written from user_data.
AddUnsupportedWrites(p) ==
    /\ adds[p].at = "translations"
    /\ ~adds[p].already_exists
    /\ user_file' = Written(Added(adds[p].user_data, adds[p].feature, adds[p].model_enum))
    /\ adds' = [adds EXCEPT ![p] = Completed("added", adds[p].feature, adds[p].model_enum)]
    /\ UNCHANGED <<UNSUPPORTED, lookup>>
    /\ UNCHANGED <<discoveryVars, probeVars>>

\* Lines 730-748: the pair was there; nothing is written.
AddUnsupportedExists(p) ==
    /\ adds[p].at = "translations"
    /\ adds[p].already_exists
    /\ adds' = [adds EXCEPT ![p] = Completed("exists", adds[p].feature, adds[p].model_enum)]
    /\ UNCHANGED <<UNSUPPORTED, user_file, lookup>>
    /\ UNCHANGED <<discoveryVars, probeVars>>

InitRegistry ==
    /\ DiscoveryIdle
    /\ ProbeIdle
    /\ UNSUPPORTED = BuiltinUnsupported
    /\ user_file \in UserFiles
    /\ adds = [p \in Callers |-> NotCalling]
    /\ lookup = NoLookup

\* The readers of the registry and the service, one call at a time.
NextRegistry ==
    \/ CombinedCalled
    \/ IsFeatureUnsupportedCalled
    \/ ProbeConsults
    \/ AddUnsupportedRejects(1)
    \/ AddUnsupportedReads(1)
    \/ AddUnsupportedWrites(1)
    \/ AddUnsupportedExists(1)

SpecRegistry == InitRegistry /\ [][NextRegistry]_vars

(***************************************************************************)
(* Vocabulary of the properties of the registry.                           *)
(***************************************************************************)
\* The model is in the built-in list of the feature.
InBuiltinList(feature, m) ==
    /\ feature \in DOMAIN BuiltinUnsupported
    /\ m \in Range(BuiltinUnsupported[feature])

\* The model is in the list that the override file gives the feature.
InOverrideList(file, feature, m) ==
    /\ file.state = "module"
    /\ file.isdict
    /\ feature \in DOMAIN file.data
    /\ m \in Range(file.data[feature])

\* The override file exists and loading it fails.
CannotBeLoaded(file) ==
    \/ file.state = "broken"
    \/ file.state = "module" /\ file.imports = "relative"

\* C18: isUnsupported(feature, model) is true exactly when the model is in the
\* built-in list or in the override list of the feature.
C18_UnsupportedIffListed ==
    lookup.op = "is_feature_unsupported" =>
        /\ lookup.exc = "ok"
        /\ lookup.ret <=> \/ InBuiltinList(lookup.feature, lookup.model)
                          \/ InOverrideList(lookup.file, lookup.feature, lookup.model)

RawModes ==
    { [type |-> "str", value |-> "Mesh"],
      [type |-> "str", value |-> "bogus"],
      [type |-> "int", value |-> "8"],
      [type |-> "int", value |-> "3"],
      [type |-> "dict", netmode |-> "repeater"],
      [type |-> "dict", netmode |-> "", mode |-> "ap"],
      [type |-> "dict"] }

\* str.lower on the strings of the model.
Lower(str) ==
    CASE str = "Mesh" -> "mesh"
      [] str = "CR8806" -> "cr8806"
      [] str = "RA67" -> "ra67"
      [] OTHER -> str

\* Line 48: raw_mode.get("netmode") or raw_mode.get("mode", "default").
ModeField(raw) ==
    IF "netmode" \in DOMAIN raw /\ raw.netmode # "" THEN raw.netmode
    ELSE IF "mode" \in DOMAIN raw THEN raw.mode
    ELSE "default"

\* Lines 50-59: MODE_MAP.
MODE_MAP ==
    [ repeater |-> "REPEATER", access_point |-> "ACCESS_POINT", ap |-> "ACCESS_POINT",
      mesh |-> "MESH", router |-> "DEFAULT", default |-> "DEFAULT" ]
    @@ ("8" :> "MESH_LEAF") @@ ("3" :> "MESH_NODE")

\* Lines 47-61: the Mode for what client.mode() returned.
ModeOf(raw) ==
    LET scalar == IF raw.type = "dict" THEN ModeField(raw) ELSE raw.value
        key == Lower(scalar)
    IN  IF key \in DOMAIN MODE_MAP THEN MODE_MAP[key] ELSE "DEFAULT"

\* Line 64: except (LuciError, KeyError, ValueError, AttributeError).
ModeCatches(exc) == IsInstance(exc, "LuciError")

\* What client.init_info() returns in the model.
Infos == { [hardware |-> "CR8806"], [hardware |-> "RA67"], EmptyDict }

\* Model(value): the member of the enum with that value, the lower-case form
\* of its name; ValueError for a value of no member.
ModelByValue(value) ==
    CASE value = "cr8806" -> "CR8806"
      [] value = "ra67" -> "RA67"
      [] OTHER -> "ValueError"

\* Lines 70-75: self.model after init_info returned `info`.
ModelOf(returned, previous) ==
    IF "hardware" \in DOMAIN returned
    THEN IF ModelByValue(Lower(returned.hardware)) = "ValueError" THEN "None"
         ELSE ModelByValue(Lower(returned.hardware))
    ELSE previous

\* Skips for a loop that probes every feature.
SkipsNever(m, unsupported_models) == FALSE

\* Line 97: if self.model and self.model in unsupported_models.
Skips(m, unsupported_models) == m # "None" /\ In(m, unsupported_models)

\* UnsupportedModels for a loop that asks the registry again at each feature.
UnsupportedModelsNow(consulted, feature) == Get(Combined.ret, feature)

\* Line 96: unsupported_models = combined_unsupported.get(feature, []), from
\* the mapping that line 78 got.
UnsupportedModels(consulted, feature) == Get(consulted, feature)

\* What func returns or raises in the runs of the model.
RunOutcomes == {"dict", "LuciError"}

\* The same, for the feature the loop is at: the calls of portforward, the
\* last feature, also fail with a connection error.
RunOutcomesNow ==
    IF fidx \in 1..Len(Features) /\ Feature = "portforward"
    THEN RunOutcomes \cup {"LuciConnectionError"}
    ELSE RunOutcomes

\* The runs on one checker.
MaxRuns == 2

\* checker.silent_mode = True, by the owner of a checker that has not run.
SilentModeSet ==
    /\ ppc = "idle"
    /\ ~silent_mode
    /\ silent_mode' = TRUE
    /\ UNCHANGED <<ppc, max_retries, mode, raw_mode, model, info, result, combined_unsupported,
                   consults, fidx, attempt, safe_ret, tried, pauses, calls, warned,
                   failures, runs>>
    /\ UNCHANGED <<discoveryVars, registryVars>>

\* run is called on a checker that is not running.
RunStarts(n) ==
    /\ ppc \in {"idle", "returned"}
    /\ Len(runs) < n
    /\ ppc' = "mode"
    /\ calls' = EmptyDict
    /\ warned' = {}
    /\ raw_mode' = NoRawMode
    /\ info' = NoInfo
    /\ consults' = 0
    /\ UNCHANGED <<max_retries, silent_mode, mode, model, result, combined_unsupported,
                   fidx, attempt, safe_ret, tried, pauses, failures, runs>>
    /\ UNCHANGED <<discoveryVars, registryVars>>

\* Lines 44-61: client.mode() returns.
ModeDetected(raws) ==
    /\ ppc = "mode"
    /\ \E raw \in raws :
         /\ raw_mode' = raw
         /\ mode' = ModeOf(raw)
    /\ ppc' = "model"
    /\ UNCHANGED <<max_retries, silent_mode, model, info, result, combined_unsupported, consults, fidx,
                   attempt, safe_ret, tried, pauses, calls, warned, failures, runs>>
    /\ UNCHANGED <<discoveryVars, registryVars>>

\* Lines 64-66: client.mode() raises an exception of the except clause.
ModeQueryFails ==
    /\ ppc = "mode"
    /\ \E exc \in Raises : ModeCatches(exc)
    /\ mode' = "None"
    /\ ppc' = "model"
    /\ UNCHANGED <<max_retries, silent_mode, raw_mode, model, info, result, combined_unsupported, consults, fidx,
                   attempt, safe_ret, tried, pauses, calls, warned, failures, runs>>
    /\ UNCHANGED <<discoveryVars, registryVars>>

\* client.mode() raises another exception, which leaves run.
ModeQueryRaises ==
    /\ ppc = "mode"
    /\ \E exc \in Raises : ~ModeCatches(exc)
    /\ ppc' = "raised"
    /\ UNCHANGED <<max_retries, silent_mode, mode, raw_mode, model, info, result, combined_unsupported, consults,
                   fidx, attempt, safe_ret, tried, pauses, calls, warned, failures, runs>>
    /\ UNCHANGED <<discoveryVars, registryVars>>

\* Lines 69-72: client.init_info() returns.
ModelDetected(infos) ==
    /\ ppc = "model"
    /\ \E returned \in infos :
         /\ info' = returned
         /\ model' = ModelOf(returned, model)
    /\ ppc' = "registry"
    /\ UNCHANGED <<max_retries, silent_mode, mode, raw_mode, result, combined_unsupported, consults, fidx,
                   attempt, safe_ret, tried, pauses, calls, warned, failures, runs>>
    /\ UNCHANGED <<discoveryVars, registryVars>>

\* Lines 73-75: client.init_info() raises; except Exception.
ModelQueryFails ==
    /\ ppc = "model"
    /\ \E exc \in Raises : IsInstance(exc, "Exception")
    /\ model' = "None"
    /\ ppc' = "registry"
    /\ UNCHANGED <<max_retries, silent_mode, mode, raw_mode, info, result, combined_unsupported, consults, fidx,
                   attempt, safe_ret, tried, pauses, calls, warned, failures, runs>>
    /\ UNCHANGED <<discoveryVars, registryVars>>

\* Lines 78-95: the registry is consulted and the loop is entered.
RunConsultsRegistry ==
    /\ ppc = "registry"
    /\ combined_unsupported' = Combined.ret
    /\ consults' = consults + 1
    /\ UNSUPPORTED' = BuiltinAfter(UNSUPPORTED, Combined.ret)
    /\ ppc' = IF Combined.exc = "ok" THEN "feature" ELSE "raised"
    /\ fidx' = 1
    /\ UNCHANGED <<max_retries, silent_mode, mode, raw_mode, model, info, result, attempt, safe_ret,
                   tried, pauses, calls, warned, failures, runs>>
    /\ UNCHANGED <<user_file, adds, lookup>>
    /\ UNCHANGED discoveryVars

\* Lines 95-101: the model is listed for the feature; the loop goes on.
FeatureSkipped ==
    /\ ppc = "feature"
    /\ fidx <= Len(Features)
    /\ Skips(model, UnsupportedModels(combined_unsupported, Feature))
    /\ fidx' = fidx + 1
    /\ UNCHANGED <<ppc, max_retries, silent_mode, mode, raw_mode, model, info, result, combined_unsupported, consults,
                   attempt, safe_ret, tried, pauses, calls, warned, failures, runs>>
    /\ UNCHANGED <<discoveryVars, registryVars>>

\* Lines 95-103 and 25: it is not; _safe_call is entered.
FeatureProbed ==
    /\ ppc = "feature"
    /\ fidx <= Len(Features)
    /\ ~Skips(model, UnsupportedModels(combined_unsupported, Feature))
    /\ ppc' = "call"
    /\ attempt' = 1
    /\ tried' = <<>>
    /\ pauses' = 0
    /\ UNCHANGED <<max_retries, silent_mode, mode, raw_mode, model, info, result, combined_unsupported, consults,
                   fidx, safe_ret, calls, warned, failures, runs>>
    /\ UNCHANGED <<discoveryVars, registryVars>>

\* Line 113: return self.result, after the last feature.
RunReturns ==
    /\ ppc = "feature"
    /\ fidx = Len(Features) + 1
    /\ ppc' = "returned"
    /\ fidx' = 0
    /\ runs' = Append(runs, result)
    /\ UNCHANGED <<max_retries, silent_mode, mode, raw_mode, model, info, result, combined_unsupported, consults,
                   attempt, safe_ret, tried, pauses, calls, warned, failures>>
    /\ UNCHANGED <<discoveryVars, registryVars>>

\* The override files of the runs of the model: none, and one that lists RA67
\* under rom_update and led_control, importing the enum either way.
ProbeFiles ==
    { NoFile } \cup
    { [state |-> "module", imports |-> imp, isdict |-> TRUE,
       data |-> [rom_update |-> <<"RA67">>, led_control |-> <<"RA67">>]] : imp \in {"absolute", "relative"} }

\* A checker made with any max_retries >= 1, and any of those files.
InitProbe ==
    /\ DiscoveryIdle
    /\ ppc = "idle"
    /\ attempt = 0
    /\ \E retries \in 1..MaxRetries : Constructed(retries)
    /\ UNSUPPORTED = BuiltinUnsupported
    /\ user_file \in ProbeFiles
    /\ adds = [p \in Callers |-> NotCalling]
    /\ lookup = NoLookup

\* One run.
NextProbe ==
    \/ SilentModeSet
    \/ RunStarts(1)
    \/ ModeDetected(RawModes)
    \/ ModeQueryFails
    \/ ModeQueryRaises
    \/ ModelDetected(Infos)
    \/ ModelQueryFails
    \/ RunConsultsRegistry
    \/ FeatureSkipped
    \/ FeatureProbed
    \/ SafeCallAttempt(RunOutcomesNow)
    \/ SafeCallSleep
    \/ RunReturns

SpecProbe == InitProbe /\ [][NextProbe]_vars

(***************************************************************************)
(* Vocabulary of the properties of the probe.  A result maps a feature to  *)
(* True (Supported), False (Unsupported) or None (NotApplicable).          *)
(***************************************************************************)
Catalogue ==
    { "mac_filter", "mac_filter_info", "per_device_qos", "rom_update", "flash_permission",
      "led_control", "guest_wifi", "wifi_config", "device_list", "topo_graph",
      "portforward" }

Supported == "True"
Unsupported == "False"
NotApplicable == "None"

\* The modes in which per_device_qos and rom_update are not applicable.
NonRouterModes == {"REPEATER", "ACCESS_POINT", "MESH", "MESH_LEAF", "MESH_NODE"}
ModeSensitive == {"per_device_qos", "rom_update"}

\* The network calls the run in progress has made for a feature.
CallsFor(feature) == IF feature \in DOMAIN calls THEN calls[feature] ELSE 0

\* The detected model is in the combined unsupported set of the feature: the
\* set that combined() returns for it.
ListedFor(feature) ==
    /\ model # "None"
    /\ feature \in DOMAIN Combined.ret
    /\ model \in Range(Combined.ret[feature])

RunReturned == ppc = "returned" /\ Len(runs) > 0

\* A run is past the detection of mode and model.
InFeatureLoop == ppc \in {"feature", "call", "sleep", "returned"} /\ fidx + Len(runs) > 0

\* C13: a run that detected a non-router mode makes no network call for
\* per_device_qos and rom_update, and returns them as NotApplicable.
C13_MeshNotApplicable ==
    mode \in NonRouterModes =>
        \A feature \in ModeSensitive :
            /\ InFeatureLoop => CallsFor(feature) = 0
            /\ RunReturned =>
                  feature \in DOMAIN result /\ result[feature] = NotApplicable

\* C14: a run makes no network call for a feature whose combined unsupported
\* set holds the detected model, whatever the mode.
C14_ListedNotCalled ==
    InFeatureLoop => \A feature \in Catalogue : ListedFor(feature) => CallsFor(feature) = 0

\* A run of CR8806, listed under wifi_config, in mode Mesh has returned, with
\* calls for the features before and after wifi_config.
C14_Witness ==
    /\ RunReturned
    /\ model = "CR8806"
    /\ mode = "MESH"
    /\ ListedFor("wifi_config")
    /\ CallsFor("guest_wifi") > 0
    /\ CallsFor("device_list") > 0

\* C15: the result a run returns records as Unsupported every feature whose
\* combined unsupported set holds the detected model.
C15_ListedUnsupported ==
    RunReturned =>
        \A feature \in Catalogue :
            ListedFor(feature) =>
                feature \in DOMAIN result /\ result[feature] = Unsupported

\* C16: the result a run returns has exactly the eleven features of the
\* catalogue as keys, each with one of the three states.
C16_ResultCoversCatalogue ==
    RunReturned =>
        /\ DOMAIN result = Catalogue
        /\ \A feature \in DOMAIN result :
              result[feature] \in {Supported, Unsupported, NotApplicable}

(***************************************************************************)
(* Runs, one after the other, on one checker: max_retries is 1, there is   *)
(* no override file, the node is in mode Mesh, and its self-info names     *)
(* CR8806 or an unknown hardware, or has no "hardware".                    *)
(***************************************************************************)
RerunModes == { [type |-> "str", value |-> "Mesh"] }
RerunInfos == { [hardware |-> "CR8806"], [hardware |-> "bogus"], EmptyDict }

InitRerun ==
    /\ DiscoveryIdle
    /\ RegistryIdle
    /\ ppc = "idle"
    /\ attempt = 0
    /\ Constructed(1)

NextRerun ==
    \/ RunStarts(MaxRuns)
    \/ ModeDetected(RerunModes)
    \/ ModelDetected(RerunInfos)
    \/ ModelQueryFails
    \/ RunConsultsRegistry
    \/ FeatureSkipped
    \/ FeatureProbed
    \/ SafeCallAttempt(RunOutcomes)
    \/ SafeCallSleep
    \/ RunReturns

SpecRerun == InitRerun /\ [][NextRerun]_vars

\* Line 113 returns self.result itself, the dict made at line 17: what the
\* caller of run n holds is that dict as it is now.
ResultOf(n) == result

\* C17: the result a run returned stays as it was returned, whatever later
\* runs do, and the result of a later run has entries only for features that
\* run dealt with.
C17_RunsOwnTheirResults ==
    /\ \A n \in 1..Len(runs) : ResultOf(n) = runs[n]
    /\ RunReturned => DOMAIN runs[Len(runs)] \subseteq DOMAIN calls

(***************************************************************************)
(* Vocabulary of the properties of mode and model detection.               *)
(***************************************************************************)
\* The members of the enumeration Mode.
Modes == {"DEFAULT", "ACCESS_POINT", "REPEATER", "MESH", "MESH_LEAF", "MESH_NODE"}

\* The raw values the table recognises, lower case, with their modes.
ModeTable ==
    { <<"repeater", "REPEATER">>, <<"access_point", "ACCESS_POINT">>,
      <<"ap", "ACCESS_POINT">>, <<"mesh", "MESH">>, <<"router", "DEFAULT">>,
      <<"default", "DEFAULT">>, <<"8", "MESH_LEAF">>, <<"3", "MESH_NODE">> }

\* Two strings of the model that differ at most in case.
SameButCase(a, b) == a = b \/ {a, b} = {"Mesh", "mesh"}

\* The scalar a raw response stands for: itself, or the netmode field of an
\* object, or else its mode field.
RawScalar(raw) ==
    IF raw.type # "dict" THEN {raw.value}
    ELSE IF "netmode" \in DOMAIN raw /\ raw.netmode # "" THEN {raw.netmode}
    ELSE IF "mode" \in DOMAIN raw THEN {raw.mode}
    ELSE {}

\* The modes the table gives a raw response: one for a recognised value,
\* none for another.
TableModes(raw) ==
    { entry[2] : entry \in { e \in ModeTable : \E v \in RawScalar(raw) : SameButCase(v, e[1]) } }

\* A run is past mode detection.
ModeResolved == ppc \in {"model", "registry", "feature", "call", "sleep"} \/ RunReturned

\* A run is past model detection.
ModelResolved == ppc \in {"registry", "feature", "call", "sleep"} \/ RunReturned

\* The mode query of the run failed.
ModeQueryFailed == raw_mode = NoRawMode

\* The self-info query of the run failed.
InfoQueryFailed == info = NoInfo

\* C24: no failure of the mode query ends the run with an exception.
C24_ModeFailureNotFatal == ~(ppc = "raised" /\ ModeQueryFailed)

\* C25: past mode detection the mode is a member of Mode: the table's mode
\* for a recognised raw value, Default for another and for a failed query.
C25_ModeIsMember ==
    ModeResolved =>
        /\ mode \in Modes
        /\ ModeQueryFailed => mode = "DEFAULT"
        /\ ~ModeQueryFailed =>
              IF TableModes(raw_mode) = {} THEN mode = "DEFAULT"
              ELSE TableModes(raw_mode) = {mode}

\* C26: a failed self-info query, a self-info without hardware and an unknown
\* hardware leave the model unresolved, and the run goes on.
C26_ModelUnresolved ==
    /\ ~(ppc = "raised" /\ ~ModeQueryFailed)
    /\ (/\ ModelResolved
        /\ \/ InfoQueryFailed
           \/ "hardware" \notin DOMAIN info
           \/ info.hardware \notin {"CR8806", "RA67"})
       => model = "None"

\* C28: the step in which _safe_call gives up on a feature records it as
\* Unsupported and warns exactly when the checker is not silent; no other
\* step warns.
C28_WarnsUnlessSilent ==
    /\ [][ (ppc = "sleep" /\ fidx > 0 /\ attempt = max_retries) =>
              /\ Feature \in DOMAIN result'
              /\ result'[Feature] = Unsupported
              /\ (Feature \in warned') <=> ~silent_mode ]_vars
    /\ [](InFeatureLoop =>
            /\ silent_mode => warned = {}
            /\ \A feature \in warned :
                  feature \in DOMAIN result /\ result[feature] = Unsupported)

\* A silent run has returned with led_control given up on after two attempts.
C28_Witness ==
    /\ RunReturned
    /\ silent_mode
    /\ max_retries = 2
    /\ "led_control" \in DOMAIN result
    /\ result["led_control"] = Unsupported
    /\ CallsFor("led_control") = 2
    /\ warned = {}

\* C29: a run in which every attempt of portforward fails with a connection
\* error emits no warning for portforward.
C29_PortforwardDebugOnly ==
    (/\ RunReturned
     /\ "portforward" \in DOMAIN calls
     /\ Len(tried) = max_retries
     /\ \A n \in 1..Len(tried) : tried[n] = "LuciConnectionError")
    => "portforward" \notin warned

\* C30: a mode-sensitive feature, in a non-router mode, for which the model
\* is listed, is not called and is returned as Unsupported.
C30_ListedBeforeModeInvalid ==
    (RunReturned /\ mode \in NonRouterModes) =>
        \A feature \in ModeSensitive :
            ListedFor(feature) =>
                /\ CallsFor(feature) = 0
                /\ feature \in DOMAIN result
                /\ result[feature] = Unsupported

(***************************************************************************)
(* Two callers of the add_unsupported service at once, on no override file *)
(* or on one that the service wrote.                                       *)
(***************************************************************************)
AddFiles == { NoFile, Written([wifi_config |-> <<"RA67">>]) }

InitAdds ==
    /\ DiscoveryIdle
    /\ ProbeIdle
    /\ UNSUPPORTED = BuiltinUnsupported
    /\ user_file \in AddFiles
    /\ adds = [p \in Callers |-> NotCalling]
    /\ lookup = NoLookup

NextAdds ==
    \/ \E p \in Callers : AddUnsupportedRejects(p)
    \/ \E p \in Callers : AddUnsupportedReads(p)
    \/ \E p \in Callers : AddUnsupportedWrites(p)
    \/ \E p \in Callers : AddUnsupportedExists(p)

SpecAdds == InitAdds /\ [][NextAdds]_vars

(***************************************************************************)
(* Vocabulary of the properties of addUnsupported.                         *)
(***************************************************************************)
\* Caller p's last call has completed and did `did`.
Did(p, did) == adds[p].at = "idle" /\ adds[p].last = did

\* How often the override layer lists the model under the feature.
TimesListed(file, feature, m) ==
    IF file.state = "module" /\ file.isdict /\ feature \in DOMAIN file.data
    THEN Cardinality({ n \in 1..Len(file.data[feature]) : file.data[feature][n] = m })
    ELSE 0

\* C21: once an addUnsupported of a valid pair has completed as an addition,
\* combined() lists the model under the feature and the override lists it
\* once; a following addUnsupported of the same pair is reported as already
\* present and does not rewrite the override.
C21_AddThenCombined ==
    /\ [](Did(1, "added") =>
            /\ TimesListed(user_file, adds[1].feature, adds[1].model) = 1
            /\ (lookup.op = "combined" /\ lookup.file = user_file) =>
                  In(adds[1].model, Get(lookup.ret, adds[1].feature)))
    /\ [][ (/\ Did(1, "added")
            /\ adds'[1].at = "translations"
            /\ adds'[1].feature = adds[1].feature
            /\ adds'[1].model_enum = adds[1].model)
           => adds'[1].already_exists ]_vars
    /\ [][ (/\ adds[1].at = "translations"
            /\ adds[1].already_exists
            /\ adds'[1] # adds[1])
           => (Did(1, "exists"))' /\ user_file' = user_file ]_vars

\* C22: when the last calls of the two callers have both added, and their
\* pairs differ, the override layer lists both pairs.
C22_NoLostUpdate ==
    (/\ Did(1, "added")
     /\ Did(2, "added")
     /\ <<adds[1].feature, adds[1].model>> # <<adds[2].feature, adds[2].model>>)
    => \A p \in Callers : TimesListed(user_file, adds[p].feature, adds[p].model) > 0

\* C23: a call with a missing argument or an unknown model name ends in an
\* error raised to its caller.
C23_ValidationErrorSurfaced ==
    \A p \in Callers :
        (adds[p].at = "idle" /\ adds[p].last \in {"missing", "invalid"})
        => adds[p].outcome = "raised"

(***************************************************************************)
(* One run of a checker of RA67 while the add_unsupported service is       *)
(* called, on an override file that lists RA67 under rom_update and        *)
(* led_control.                                                            *)
(***************************************************************************)
ListedInfos == { [hardware |-> "RA67"] }

InitProbeAdd ==
    /\ DiscoveryIdle
    /\ ppc = "idle"
    /\ attempt = 0
    /\ Constructed(1)
    /\ UNSUPPORTED = BuiltinUnsupported
    /\ user_file \in { f \in ProbeFiles : f.imports # "relative" }
    /\ adds = [p \in Callers |-> NotCalling]
    /\ lookup = NoLookup

NextProbeAdd ==
    \/ RunStarts(1)
    \/ ModeDetected(RerunModes)
    \/ ModelDetected(ListedInfos)
    \/ RunConsultsRegistry
    \/ FeatureSkipped
    \/ FeatureProbed
    \/ SafeCallAttempt(RunOutcomes)
    \/ SafeCallSleep
    \/ RunReturns
    \/ AddUnsupportedRejects(1)
    \/ AddUnsupportedReads(1)
    \/ AddUnsupportedWrites(1)
    \/ AddUnsupportedExists(1)

SpecProbeAdd == InitProbeAdd /\ [][NextProbeAdd]_vars

\* The run in progress, or the one that returned, is past the check of the
\* k-th feature.
Decided(k) == RunReturned \/ k < fidx \/ (k = fidx /\ ppc \in {"call", "sleep"})

\* C27: a run in its feature loop has read the combined registry once, and of
\* the features it is past it skipped (made no call for) exactly those whose
\* list in that one reading holds the model, whatever the registry holds now.
C27_RegistryReadOnce ==
    InFeatureLoop =>
        /\ consults = 1
        /\ \A k \in 1..Len(Features) :
              (Decided(k) /\ ~(k = fidx /\ ppc = "call" /\ attempt = 1)) =>
                  (CallsFor(Features[k]) = 0
                     <=> Skips(model, Get(combined_unsupported, Features[k])))

\* A run has returned that skipped led_control, which an addition made after
\* the run read the registry took off the combined list of RA67.
C27_Witness ==
    /\ RunReturned
    /\ Did(1, "added")
    /\ Skips(model, Get(combined_unsupported, "led_control"))
    /\ ~Skips(model, Get(Combined.ret, "led_control"))
    /\ CallsFor("led_control") = 0
    /\ CallsFor("guest_wifi") > 0

\* C31: a direct safeCall that has returned paused once between each two
\* consecutive attempts and nowhere else: one pause less than attempts.
C31_PausesBetweenAttempts ==
    SafeCallReturned => pauses = Len(tried) - 1

\* The values an operation can return that are neither a structured response
\* nor the literal true.
OtherValues == {"False", "None", "list"}

\* C33: in a direct safeCall an attempt that returns false, null or a list is
\* not a success: it uses up one attempt, the call does not return true on
\* it, another attempt follows it unless it was the last one allowed, and a
\* call whose attempts all returned such values has returned false after
\* maxRetries attempts.
C33_OtherValuesRetried ==
    /\ \A n \in 1..Len(tried) :
          tried[n] \in OtherValues =>
              /\ n <= attempt
              /\ n < Len(tried) => n < max_retries
              /\ (ppc = "call" /\ n = Len(tried)) => attempt = n + 1
              /\ (SafeCallReturned /\ n = Len(tried)) =>
                     n = max_retries /\ safe_ret = "False"
    /\ (SafeCallReturned /\ \A n \in 1..Len(tried) : tried[n] \in OtherValues) =>
          safe_ret = "False" /\ Len(tried) = max_retries

\* False, null and a list, one after the other, with three attempts allowed.
C33_Witness ==
    /\ SafeCallReturned
    /\ tried = <<"False", "None", "list">>
    /\ safe_ret = "False"

(***************************************************************************)
(* safe_call_with_support (unsupported.py, lines 45-58).  Its caller makes *)
(* the coroutine; the function awaits it or leaves it unawaited.           *)
(***************************************************************************)
\* What the awaited coroutine can do: return a value, empty or not, or raise.
CoroOutcomes == FuncOutcomes \cup {"empty dict", "empty list"}

\* Falsy for a test `result is None`.
FalsyNoneOnly(value) == value = "None"

\* Line 52: not result.
Falsy(value) == value \in {"None", "False", "empty dict", "empty list"}

\* Line 56: except Exception.
SupportCatches(exc) == exc # "ok" /\ IsInstance(exc, "Exception")

\* The features and models of the calls of the model: rom_update is one of
\* the features of the call sites (services.py, lines 806-817).
SupportFeatures == SomeFeatures \cup {"rom_update"}

\* safe_call_with_support, given what line 41 got and what the coroutine does
\* when awaited: whether it was awaited, the exception the call ends in ("ok"
\* for none) and the value returned.
SafeCallWithSupport(combined, feature, m, out) ==
    IF combined.exc # "ok"
    THEN [awaited |-> FALSE, exc |-> combined.exc, ret |-> "none"]
    ELSE IF IsFeatureUnsupported(combined.ret, feature, m)
    THEN [awaited |-> FALSE, exc |-> "ok", ret |-> "error: unsupported"]
    ELSE IF out \in Raises
    THEN IF SupportCatches(out)
         THEN [awaited |-> TRUE, exc |-> "ok", ret |-> "error: no data"]
         ELSE [awaited |-> TRUE, exc |-> out, ret |-> "none"]
    ELSE IF Falsy(out)
    THEN [awaited |-> TRUE, exc |-> "ok", ret |-> "error: no data"]
    ELSE [awaited |-> TRUE, exc |-> "ok", ret |-> out]

\* A call of safe_call_with_support.
SafeCallWithSupportCalled ==
    /\ LET combined == Combined
       IN  \E feature \in SupportFeatures, m \in SomeModels, out \in CoroOutcomes :
             LET call == SafeCallWithSupport(combined, feature, m, out)
             IN  lookup' = [op |-> "safe_call_with_support", feature |-> feature, model |-> m,
                            file |-> user_file, out |-> out, awaited |-> call.awaited,
                            exc |-> call.exc, ret |-> call.ret]
    /\ UNSUPPORTED' = BuiltinAfter(UNSUPPORTED, Combined.ret)
    /\ UNCHANGED <<user_file, adds>>
    /\ UNCHANGED <<discoveryVars, probeVars>>

\* The calls of safe_call_with_support, on any override file of the registry
\* and on one the service wrote.
InitSupport ==
    /\ DiscoveryIdle
    /\ ProbeIdle
    /\ UNSUPPORTED = BuiltinUnsupported
    /\ user_file \in UserFiles \cup ProbeFiles \cup AddFiles
    /\ adds = [p \in Callers |-> NotCalling]
    /\ lookup = NoLookup

NextSupport == SafeCallWithSupportCalled

SpecSupport == InitSupport /\ [][NextSupport]_vars

\* The pair is in the combined registry that combined() makes of the built-in
\* layer and of the override file.
InCombinedRegistry(file, feature, m) ==
    \/ InBuiltinList(feature, m)
    \/ InOverrideList(file, feature, m) /\ ~CannotBeLoaded(file)

\* The values that are empty: null, false, and a dict or a list without
\* elements.
EmptyValues == {"None", "False", "empty dict", "empty list"}

\* C32: a call of safe_call_with_support ends in no exception; for a pair in
\* the combined registry it returns the placeholder "unsupported" and has not
\* awaited the call; otherwise it has awaited it and returns the placeholder
\* "no data" when the call raised or returned an empty value, and what the
\* call returned when it did not.
C32_SupportNeverRaises ==
    lookup.op = "safe_call_with_support" =>
        /\ lookup.exc = "ok"
        /\ IF InCombinedRegistry(lookup.file, lookup.feature, lookup.model)
           THEN ~lookup.awaited /\ lookup.ret = "error: unsupported"
           ELSE /\ lookup.awaited
                /\ lookup.ret = IF lookup.out \in Raises \cup EmptyValues
                                THEN "error: no data"
                                ELSE lookup.out

\* A call for a pair that only the override file lists, with a coroutine
\* that would have raised: it was not awaited.
C32_Witness ==
    /\ lookup.op = "safe_call_with_support"
    /\ lookup.out = "LuciError"
    /\ InOverrideList(lookup.file, lookup.feature, lookup.model)
    /\ ~InBuiltinList(lookup.feature, lookup.model)
    /\ ~lookup.awaited
    /\ lookup.ret = "error: unsupported"

(***************************************************************************)
(* async_discover_devices on responses whose addresses carry whitespace.   *)
(***************************************************************************)
Blank == <<" ">>

\* Child entries with an address of whitespace only, with a padded address
\* and with an empty one.
BlankKinds ==
    { [ip |-> Blank, hardware |-> Hw],
      [ip |-> <<" ", "a">>, hardware |-> Hw],
      [ip |-> <<>>, hardware |-> Hw] }

\* Responses of at most MaxNodes such entries, of a root that reports its
\* address or whitespace.
BlankResponses ==
    { [graph |-> [ip |-> ip, leafs |-> f]] :
          ip \in {AddrA, Blank}, f \in ForestsUpTo(BlankKinds, MaxNodes) }

\* The addresses the checks of such a response are asked about: the stripped
\* ones.
BlankAddrs == { Strip(ip) : ip \in {AddrA, Blank, <<" ", "a">>} }

InitBlank ==
    /\ pc = "roots"
    /\ i = 1
    /\ response = EmptyDict
    /\ devices = <<>>
    /\ stack = <<>>
    /\ alive \in [BlankAddrs -> Outcomes]
    /\ queried = <<>>
    /\ probes = <<>>
    /\ sources = <<>>
    /\ hass = NoStart
    /\ ProbeIdle
    /\ RegistryIdle

NextBlank ==
    \/ CandidateAnswers(BlankResponses)
    \/ RootChecked
    \/ RootCheckRaises
    \/ LeafSkipped
    \/ LeafVisited
    \/ LeafCheckRaises

SpecBlank == InitBlank /\ [][NextBlank]_vars

\* C34: every address in the list that discover returns is a non-empty
\* string.
C34_AddressesNonEmpty ==
    pc = "done" => \A n \in 1..Len(devices) : Len(devices[n]) > 0

\* The liveness check made for the node at `path` returned false.
CheckFailedAt(path) ==
    \E m \in 1..Len(probes) :
        probes[m].path = path /\ probes[m].outcome = "LuciConnectionError"

\* p is a proper prefix of q: the node at p is an ancestor of the node at q.
IsAncestor(p, q) == Len(p) < Len(q) /\ SubSeq(q, 1, Len(p)) = p

\* C35: when discover has returned, every qualifying entry below a node whose
\* own liveness check failed (the root, or a qualifying child) has been
\* checked itself, and is in the result when its address answers.
C35_ChildrenWalkedAnyway ==
    Returned =>
        \A q \in CandidateNodes : \A p \in CandidateNodes :
            (IsAncestor(p, q) /\ CheckFailedAt(p)) =>
                /\ \E m \in 1..Len(probes) : probes[m].path = q
                /\ Answers(AddressAt(q)) =>
                      \E n \in 1..Len(sources) :
                          sources[n] = q /\ devices[n] = AddressAt(q)

\* The root and its child do not answer; the child's child does, and is the
\* one address returned.
C35_Witness ==
    /\ Returned
    /\ alive[AddrA] = "LuciConnectionError"
    /\ CheckFailedAt(<<>>)
    /\ CheckFailedAt(<<1>>)
    /\ sources = << <<1, 1>> >>
    /\ devices = <<AddrB>>

\* The run did not get a known hardware name: its self-info query failed, or
\* the self-info has no hardware, or an unknown one.
HardwareUnknown ==
    \/ InfoQueryFailed
    \/ "hardware" \notin DOMAIN info
    \/ info.hardware \notin {"CR8806", "RA67"}

\* C36: a run that did not get a known hardware name has, when it returns,
\* made a network call for every feature of the catalogue.
C36_UnresolvedSkipsNothing ==
    (RunReturned /\ HardwareUnknown) =>
        \A feature \in Catalogue : CallsFor(feature) > 0

\* The pairs the override file lists.
OverridePairs(file) ==
    { pair \in (SomeFeatures \cup {"rom_update"}) \X SomeModels :
          InOverrideList(file, pair[1], pair[2]) }

\* The step completes a call of caller p.
Completes(p) == adds[p].at = "translations" \/ (adds[p].at = "idle" /\ adds'[p] # adds[p])

\* C37: a call of addUnsupported that ends as a rejection (missing argument,
\* unknown model name) or as "already present" leaves the override file as
\* it is; the file changes only in a step that completes an addition, the
\* pair added was in neither layer before that step, and after it the file
\* lists that pair and every pair it listed before.
C37_FrameOfAdd ==
    [][ /\ \A p \in Callers :
              (Completes(p) /\ adds'[p].at = "idle") =>
                  IF adds'[p].last = "added"
                  THEN /\ <<adds'[p].feature, adds'[p].model>> \notin OverridePairs(user_file)
                       /\ ~InBuiltinList(adds'[p].feature, adds'[p].model)
                       /\ OverridePairs(user_file') =
                              OverridePairs(user_file)
                                  \cup {<<adds'[p].feature, adds'[p].model>>}
                  ELSE user_file' = user_file
        /\ user_file' # user_file =>
              \E p \in Callers :
                  Completes(p) /\ adds'[p].at = "idle" /\ adds'[p].last = "added"
      ]_vars

(***************************************************************************)
(* The calls of async_start_discovery and the ticks of its timer.          *)
(***************************************************************************)
\* The most calls of async_start_discovery on one instance, and the most
\* runs that the timers of one instance start.
MaxStarts == 3
MaxTicks == 3

\* AlreadyStarted for a function without the test of line 38.
AlreadyStartedNever(data) == FALSE

\* Line 38: if DISCOVERY in data.
AlreadyStarted(data) == data.discovery

\* Lines 37-58: a callback, so one step: the test, the key, the task of the
\* first discovery and the timer.
AsyncStartDiscovery(h) ==
    /\ hass[h].calls < MaxStarts
    /\ hass' = [hass EXCEPT ![h] =
                  IF AlreadyStarted(hass[h])
                  THEN [@ EXCEPT !.calls = @ + 1]
                  ELSE [@ EXCEPT !.calls = @ + 1, !.discovery = TRUE,
                                 !.tasks = @ + 1, !.timers = @ + 1]]
    /\ UNCHANGED <<pc, i, response, devices, stack, alive, queried, probes, sources>>
    /\ UNCHANGED <<probeVars, registryVars>>

\* DISCOVERY_INTERVAL has passed: every timer registered at line 58 starts a
\* run of _async_discovery.
DiscoveryIntervalPasses(h) ==
    /\ hass[h].timers > 0
    /\ hass[h].ticks + hass[h].timers <= MaxTicks
    /\ hass' = [hass EXCEPT ![h].ticks = @ + hass[h].timers]
    /\ UNCHANGED <<pc, i, response, devices, stack, alive, queried, probes, sources>>
    /\ UNCHANGED <<probeVars, registryVars>>

InitStart ==
    /\ DiscoveryIdle
    /\ ProbeIdle
    /\ RegistryIdle

NextStart ==
    \/ \E h \in Instances : AsyncStartDiscovery(h)
    \/ \E h \in Instances : DiscoveryIntervalPasses(h)

SpecStart == InitStart /\ [][NextStart]_vars

\* C38: on an instance on which async_start_discovery has been called, once
\* or more, one first discovery has been started and one timer registered.
C38_StartedOnce ==
    \A h \in Instances :
        hass[h].calls > 0 => hass[h].tasks = 1 /\ hass[h].timers = 1

\* Three calls on one instance and none on the other; the timer has ticked.
C38_Witness ==
    /\ hass[1].calls = 3
    /\ hass[1].tasks = 1
    /\ hass[1].timers = 1
    /\ hass[1].ticks > 0
    /\ hass[2].calls = 0
    /\ hass[2].tasks = 0

====
